---- MODULE Spec2Model ----
(***************************************************************************)
(* A model of cv374.                                                       *)
(*                                                                         *)
(* The recording decoder: Win32Handler.read_bin_data (src/win32.py), which *)
(* turns a WIN32-framed byte stream into per-channel sample arrays, and    *)
(* T3WHandler (src/t3w.py), which reads the fixed 1024-byte header in      *)
(* front of it.  The payload is a byte stream of unknown content: every    *)
(* read of the decoder draws the bytes it gets from small sets, and a read *)
(* that gets fewer bytes than it asked for has met the end of the payload. *)
(*                                                                         *)
(* The catalog: DataFormatter (src/format.py), which lists the recordings  *)
(* and logs of a data directory, groups the recordings, matches each to a  *)
(* log and merges the log's fix into it.                                   *)
(*                                                                         *)
(* The log parser: LogHandler (src/log.py), which resolves the fix and the *)
(* validity window of a log from its $GPGGA and $GPZDA lines.              *)
(***************************************************************************)
EXTENDS Integers, Sequences, FiniteSets, TLC

VARIABLES
    pc,                       \* position of the decoder
    err,                      \* the exception that ended it ("" while none)
    eof,                      \* the payload is exhausted
    budget,                   \* delta bytes the payload may still hold
    declared,                 \* sample counts the payload may still declare
    t3w_header,               \* T3WHandler.header, NoHeader when decoding from bytes
    magic,                    \* header["WIN32 Header"]: the bytes of the magic field
    temp_data,                \* the frames decoded so far
    temp_second_block,        \* the frame being decoded, with its blocks so far
    temp_data_block,          \* the channel block being decoded
    temp_sample_value,        \* the running sum of the block being decoded
    temp_first_4bit_processed_flag,
    temp_byte,                \* the byte last read for sample-size code 0
    temp_inc_bit,             \* the bytes last read for sample-size codes 1..4
    temp_start_datetime_dt,   \* the frame timestamp last parsed
    iter,                     \* iterations done of the delta loop of the block
    blk_bytes,                \* history: the delta reads of the block, in order
    blk_deltas,               \* history: the deltas added in the block, in order
    cut,                      \* history: where the payload was found to end
    header,                   \* the header read_bin_data returns
    stream,                   \* the traces read_bin_data returns
    \* DataFormatter (src/format.py)
    cat_pc,                   \* position of DataFormatter.__init__
    cat_err,                  \* the exception that ended it ("" while none)
    t3w_files,                \* input: the *.t3w files under data_dir
    log_files,                \* input: the *.log files under data_dir
    persisted,                \* input: t3w_file_list.csv of an earlier run
    flag_leave_original,      \* flag_leave_original["location"]
    t3w_file_list,            \* the rows of self.t3w_file_list
    log_file_list,            \* the rows of self.log_file_list
    group_index,              \* column group_index (<<>> while it does not exist)
    match_log_index,          \* column match_log_index (<<>> while it does not exist)
    location,                 \* the six location columns, one record a row
    temp_group_index,
    match_i,                  \* rows the loop of _match_files has done
    warnings,                 \* history: the rows logger.warning was called for
    exported,                 \* the t3w_file_list.csv the run wrote (<<>> while none)
    fault,                    \* input: the file of the directory that is bad, if any
    \* LogHandler (src/log.py)
    log_pc,                   \* position of LogHandler.__init__
    log_err,                  \* the exception that ended it ("" while none)
    temp_line_GPGGA,          \* input: the $GPGGA lines of the file, in order
    temp_line_GPZDA,          \* input: the $GPZDA lines of the file, in order
    raw_GPGGA,                \* self.raw_GPGGA
    stats                     \* self.stats

decvars == <<pc, err, eof, budget, declared, t3w_header, magic, temp_data,
          temp_second_block, temp_data_block, temp_sample_value,
          temp_first_4bit_processed_flag, temp_byte, temp_inc_bit,
          temp_start_datetime_dt, iter, blk_bytes, blk_deltas, cut, header, stream>>

catvars == <<cat_pc, cat_err, t3w_files, log_files, persisted, flag_leave_original,
             t3w_file_list, log_file_list, group_index, match_log_index, location,
             temp_group_index, match_i, warnings, exported, fault>>

logvars == <<log_pc, log_err, temp_line_GPGGA, temp_line_GPZDA, raw_GPGGA, stats>>

vars == <<decvars, catvars, logvars>>

(***************************************************************************)
(* Bounds of the model.                                                    *)
(***************************************************************************)
\* frames a payload holds at most
MaxFrames == 2
\* delta bytes a payload holds at most
MaxDeltaBytes == 4
\* the sum of the sample counts the blocks of a payload declare, at most
MaxDeclared == 5
\* delta bytes of a payload decoded behind a T3W header, at most
T3WDeltaBytes == 1

\* num_channel of Win32Handler, here two channels
NumChannel == 2

\* a local variable no assignment has bound yet
Unbound == <<-1>>
\* T3WHandler was not used: Win32Handler decodes bytes it was handed
NoHeader == [kind |-> "none"]

(***************************************************************************)
(* Bytes and integers.                                                     *)
(***************************************************************************)
RECURSIVE UnsignedBE(_)
\* int.from_bytes(bs, byteorder='big', signed=False); struct '>I', '>H'
UnsignedBE(bs) ==
    IF bs = <<>> THEN 0
    ELSE 256 * UnsignedBE(SubSeq(bs, 1, Len(bs) - 1)) + bs[Len(bs)]

RECURSIVE Fold256(_, _)
\* v, then each byte of bs as one more base-256 digit
Fold256(v, bs) == IF bs = <<>> THEN v ELSE Fold256(256 * v + Head(bs), Tail(bs))

\* int.from_bytes(bs, byteorder='big', signed=True); struct '>i': two's
\* complement of Len(bs) bytes (the first byte carries the sign), 0 for no
\* bytes at all
SignedBE(bs) ==
    IF bs = <<>> THEN 0
    ELSE Fold256(IF bs[1] >= 128 THEN bs[1] - 256 ELSE bs[1], Tail(bs))

\* x & 0x0F of a Python int (two's complement of any width)
And0F(x) == (x % 256) % 16
\* x & 0xF0 of a Python int
AndF0(x) == ((x % 256) \div 16) * 16

Min(a, b) == IF a <= b THEN a ELSE b

(***************************************************************************)
(* The inputs the payload is drawn from.                                   *)
(***************************************************************************)
\* the byte patterns the delta stream of a block is drawn from: a read of n
\* bytes gets the first n bytes of a pattern, or fewer at the end of the payload
DeltaPatterns ==
    { <<18, 52, 255, 18>>,           \* 0x12 0x34 0xFF 0x12
      <<52, 18, 52, 255>>,           \* 0x34 0x12 0x34 0xFF
      <<255, 255, 255, 255>> }       \* 0xFF 0xFF 0xFF 0xFF

\* the 2-byte size fields of a channel block: high nibble the sample-size
\* code, low 12 bits the sample count
SizeFields ==
    { <<0, 5>>, <<0, 3>>,            \* code 0, 5 and 3 samples
      <<16, 2>>, <<16, 1>>, <<16, 0>>, \* code 1, 2, 1 and 0 samples
      <<32, 2>>,                     \* code 2, 2 samples
      <<48, 2>>,                     \* code 3, 2 samples
      <<64, 2>>,                     \* code 4, 2 samples
      <<80, 2>> }                    \* code 5, 2 samples

\* the 4-byte initial samples of a channel block
InitSamples == { <<255, 255, 255, 254>> }   \* -2

\* the 8-byte frame timestamps, BCD: frame k of a payload starts at
\* 2024-01-01 12:00:0k.00, or carries a month of 00
GoodStamp(k) == <<32, 36, 1, 1, 18, 0, k, 0>>
BadStamp == <<32, 36, 0, 1, 18, 0, 0, 0>>
FrameStamps(k) == {GoodStamp(k), BadStamp}

\* the 4-byte frame lengths: 1000 ms
FrameLengths == { <<0, 0, 3, 232>> }

(***************************************************************************)
(* Timestamps.                                                             *)
(***************************************************************************)
RECURSIVE Hex(_)
\* bytes.hex(): two hexadecimal digits a byte, high digit first
Hex(bs) ==
    IF bs = <<>> THEN <<>>
    ELSE <<bs[1] \div 16, bs[1] % 16>> \o Hex(Tail(bs))

\* the number two digits of a digit string spell
Field2(ds, i) == 10 * ds[i] + ds[i + 1]

\* datetime.strptime(ds, "%Y%m%d%H%M%S%f") succeeds. ds holds the year in 4
\* digits and month, day, hour, minute, second in 2 digits each, then the
\* fraction; the inputs of the model are of that shape, and a month of 00
\* matches no alternative of %m, so no other split of the digits parses.
Parsable(ds) ==
    /\ Len(ds) >= 15
    /\ \A i \in 1..Len(ds) : ds[i] \in 0..9
    /\ Field2(ds, 5) \in 1..12
    /\ Field2(ds, 7) \in 1..31
    /\ Field2(ds, 9) \in 0..23
    /\ Field2(ds, 11) \in 0..59
    /\ Field2(ds, 13) \in 0..61

(***************************************************************************)
(* Reading the payload.                                                    *)
(***************************************************************************)
\* bin_data.read(n) for delta bytes: what the payload can hand out
ReadSet(n) ==
    IF eof THEN {<<>>}
    ELSE {SubSeq(p, 1, k) : p \in DeltaPatterns, k \in 0..Min(n, budget)}

\* how many of the 16 bytes of a frame header the payload hands out: none,
\* a part of the timestamp, the timestamp alone, the timestamp and the frame
\* length, all
FrameCuts == {0, 3, 8, 12, 16}

\* how many of the 10 bytes of a block header the payload hands out: none,
\* the ids, half the size field, a part of the first sample, all
BlockCuts == {0, 4, 5, 8, 10}

\* what a read of a header that draws from S gets once the payload has ended
Avail(S) == IF eof THEN {0} ELSE S

(***************************************************************************)
(* Win32Handler.                                                           *)
(***************************************************************************)
\* the 4 bytes of the magic field
MagicBytes == <<0, 0, 0, 0>>

NoFrame == [start_datetime |-> <<>>, frame_length |-> 0,
            channel_data_block_length |-> 0, data |-> <<>>]
NoBlock == [sample_size |-> 0, data_size_per_data_block |-> 0, data |-> <<>>]
NoCut == [where |-> "none", n |-> 0]
NoOutput == [kind |-> "none"]

\* the decoder ends with exception e
Raise(e) == pc' = "error" /\ err' = e

\* the payload is found to end in a read of unit w that got n bytes
CutAt(w, n) == cut' = IF eof THEN cut ELSE [where |-> w, n |-> n]

\* temp_bin[0] >> 4 of the size field
SampleSize(sf) == sf[1] \div 16
\* struct.unpack(">H", temp_bin)[0] & 0x0FFF of the size field
DataSize(sf) == UnsignedBE(sf) % 4096

\* range(data_size_per_data_block - 1): the iterations of the delta loop
DeltaLoopLen(n) == IF n - 1 > 0 THEN n - 1 ELSE 0

\* no DataFormatter is being constructed
NoCatalog == [exists |-> FALSE]
\* every file of the directory is where the catalog says and decodes
NoFault == [kind |-> "none", row |-> 0]
NoStats == [kind |-> "none"]

CatalogIdle ==
    /\ cat_pc = "idle"
    /\ cat_err = ""
    /\ t3w_files = <<>>
    /\ log_files = <<>>
    /\ persisted = NoCatalog
    /\ flag_leave_original = FALSE
    /\ t3w_file_list = <<>>
    /\ log_file_list = <<>>
    /\ group_index = <<>>
    /\ match_log_index = <<>>
    /\ location = <<>>
    /\ temp_group_index = 0
    /\ match_i = 0
    /\ warnings = <<>>
    /\ exported = <<>>
    /\ fault = NoFault

\* no LogHandler is being constructed
LogIdle ==
    /\ log_pc = "idle"
    /\ log_err = ""
    /\ temp_line_GPGGA = <<>>
    /\ temp_line_GPZDA = <<>>
    /\ raw_GPGGA = <<>>
    /\ stats = NoStats

\* no decoder is running
DecoderIdle ==
    /\ pc = "idle"
    /\ err = ""
    /\ eof = FALSE
    /\ budget = 0
    /\ declared = 0
    /\ t3w_header = NoHeader
    /\ magic = <<>>
    /\ temp_data = <<>>
    /\ temp_second_block = NoFrame
    /\ temp_data_block = NoBlock
    /\ temp_sample_value = 0
    /\ temp_first_4bit_processed_flag = FALSE
    /\ temp_byte = Unbound
    /\ temp_inc_bit = Unbound
    /\ temp_start_datetime_dt = Unbound
    /\ iter = 0
    /\ blk_bytes = <<>>
    /\ blk_deltas = <<>>
    /\ cut = NoCut
    /\ header = NoOutput
    /\ stream = <<>>

InitWin32 ==
    /\ pc = "construct"
    /\ err = ""
    /\ eof = FALSE
    /\ budget = MaxDeltaBytes
    /\ declared = MaxDeclared
    /\ t3w_header = NoHeader
    /\ magic = <<>>
    /\ temp_data = <<>>
    /\ temp_second_block = NoFrame
    /\ temp_data_block = NoBlock
    /\ temp_sample_value = 0
    /\ temp_first_4bit_processed_flag = FALSE
    /\ temp_byte = Unbound
    /\ temp_inc_bit = Unbound
    /\ temp_start_datetime_dt = Unbound
    /\ iter = 0
    /\ blk_bytes = <<>>
    /\ blk_deltas = <<>>
    /\ cut = NoCut
    /\ header = NoOutput
    /\ stream = <<>>
    /\ CatalogIdle
    /\ LogIdle

\* Win32Handler.__init__ with bin_data, and the magic field of read_bin_data:
\* empty bytes are falsy, so neither branch runs and nothing is decoded
Construct ==
    /\ pc = "construct"
    /\ \E n \in 0..4 :
         /\ magic' = SubSeq(MagicBytes, 1, n)
         /\ eof' = (n < 4)
         /\ (n < 4 /\ CutAt("magic", n)) \/ (n = 4 /\ cut' = cut)
         /\ pc' = IF n = 0 THEN "nodecode" ELSE "frame"
    /\ UNCHANGED <<err, budget, declared, t3w_header, temp_data, temp_second_block,
                   temp_data_block, temp_sample_value,
                   temp_first_4bit_processed_flag, temp_byte, temp_inc_bit,
                   temp_start_datetime_dt, iter, blk_bytes, blk_deltas, header,
                   stream>>
    /\ UNCHANGED <<catvars, logvars>>

\* the head of the while loop: the frame's timestamp, length and block length
ReadFrameHeader ==
    /\ pc = "frame"
    /\ \E n \in (IF Len(temp_data) >= MaxFrames THEN {0} ELSE Avail(FrameCuts)),
          ts \in FrameStamps(Len(temp_data)), fl \in FrameLengths :
         /\ eof' = (eof \/ n < 16)
         /\ (n < 16 /\ CutAt("frame", n)) \/ (n = 16 /\ cut' = cut)
         /\ IF n < 8
            THEN \* struct.error of the timestamp: break
                 /\ pc' = "convert"
                 /\ UNCHANGED <<err, temp_start_datetime_dt, temp_second_block>>
            ELSE IF ~Parsable(Hex(ts))
            THEN /\ Raise("ValueError: Invalid datetime format")
                 /\ UNCHANGED <<temp_start_datetime_dt, temp_second_block>>
            ELSE IF n < 16
            THEN \* struct.error of frame_length or channel_data_block_length
                 /\ Raise("struct.error")
                 /\ temp_start_datetime_dt' = Hex(ts)
                 /\ UNCHANGED temp_second_block
            ELSE /\ pc' = "block"
                 /\ err' = err
                 /\ temp_start_datetime_dt' = Hex(ts)
                 /\ temp_second_block' =
                        [start_datetime |-> Hex(ts),
                         frame_length |-> UnsignedBE(fl),
                         channel_data_block_length |-> 0,
                         data |-> <<>>]
    /\ UNCHANGED <<budget, declared, t3w_header, magic, temp_data, temp_data_block,
                   temp_sample_value, temp_first_4bit_processed_flag, temp_byte,
                   temp_inc_bit, iter, blk_bytes, blk_deltas, header, stream>>
    /\ UNCHANGED <<catvars, logvars>>

\* the head of a channel block: ids (4 bytes), size field (2), first sample (4)
ReadBlockHeader ==
    /\ pc = "block"
    /\ \E n \in Avail(BlockCuts), sf \in SizeFields, iv \in InitSamples :
         /\ DataSize(sf) <= declared
         /\ eof' = (eof \/ n < 10)
         /\ (n < 10 /\ CutAt("block", n)) \/ (n = 10 /\ cut' = cut)
         /\ IF n = 4
            THEN \* temp_bin is empty: temp_bin[0]
                 /\ Raise("IndexError")
                 /\ UNCHANGED <<declared, temp_data_block, temp_sample_value,
                                temp_first_4bit_processed_flag, iter, blk_bytes,
                                blk_deltas>>
            ELSE IF n < 10
            THEN /\ Raise("struct.error")
                 /\ UNCHANGED <<declared, temp_data_block, temp_sample_value,
                                temp_first_4bit_processed_flag, iter, blk_bytes,
                                blk_deltas>>
            ELSE /\ pc' = "delta"
                 /\ err' = err
                 /\ declared' = declared - DataSize(sf)
                 /\ temp_data_block' =
                        [sample_size |-> SampleSize(sf),
                         data_size_per_data_block |-> DataSize(sf),
                         data |-> <<SignedBE(iv)>>]
                 /\ temp_sample_value' = SignedBE(iv)
                 /\ temp_first_4bit_processed_flag' = FALSE
                 /\ iter' = 0
                 /\ blk_bytes' = <<>>
                 /\ blk_deltas' = <<>>
    /\ UNCHANGED <<budget, t3w_header, magic, temp_data, temp_second_block,
                   temp_byte, temp_inc_bit, temp_start_datetime_dt, header, stream>>
    /\ UNCHANGED <<catvars, logvars>>

\* the delta of a nibble: the first use of a byte, then the second
NibbleFirst(b) == And0F(SignedBE(b))
NibbleSecond(b) == AndF0(SignedBE(b))
\* a decoder that pads a 3-byte delta with a zero byte in front
WideDeltaPadded3(bs) == IF Len(bs) = 3 THEN UnsignedBE(bs) ELSE SignedBE(bs)
\* the delta of the bytes read for codes 1..4
WideDelta(bs) == SignedBE(bs)

\* the bytes a delta of sample-size code c asks for
WideBytes(c) == IF c \in 1..4 THEN c ELSE 0

\* a decoder that starts the running sum again at every delta
AddDeltaReseeded(d) ==
    /\ temp_sample_value' = d
    /\ temp_data_block' = [temp_data_block EXCEPT !.data = Append(@, d)]
    /\ blk_deltas' = Append(blk_deltas, d)
    /\ iter' = iter + 1
    /\ pc' = pc
    /\ err' = err

\* the block takes delta d
AddDelta(d) ==
    /\ temp_sample_value' = temp_sample_value + d
    /\ temp_data_block' =
           [temp_data_block EXCEPT !.data = Append(@, temp_sample_value + d)]
    /\ blk_deltas' = Append(blk_deltas, d)
    /\ iter' = iter + 1
    /\ pc' = pc
    /\ err' = err

\* one iteration of the delta loop
DeltaStep ==
    /\ pc = "delta"
    /\ iter < DeltaLoopLen(temp_data_block.data_size_per_data_block)
    /\ LET c == temp_data_block.sample_size IN
       IF c = 0
       THEN IF ~temp_first_4bit_processed_flag
            THEN \E b \in ReadSet(1) :
                   /\ temp_byte' = b
                   /\ budget' = budget - Len(b)
                   /\ eof' = (eof \/ Len(b) < 1)
                   /\ (Len(b) < 1 /\ CutAt("delta", iter)) \/ (Len(b) = 1 /\ cut' = cut)
                   /\ blk_bytes' = Append(blk_bytes, b)
                   /\ temp_first_4bit_processed_flag' = TRUE
                   /\ AddDelta(NibbleFirst(b))
                   /\ UNCHANGED temp_inc_bit
            ELSE /\ temp_first_4bit_processed_flag' = FALSE
                 /\ AddDelta(NibbleSecond(temp_byte))
                 /\ UNCHANGED <<temp_byte, temp_inc_bit, budget, eof, cut, blk_bytes>>
       ELSE IF c \in 1..4
       THEN \E bs \in ReadSet(WideBytes(c)) :
              /\ temp_inc_bit' = bs
              /\ budget' = budget - Len(bs)
              /\ eof' = (eof \/ Len(bs) < c)
              /\ (Len(bs) < c /\ CutAt("delta", iter)) \/ (Len(bs) = c /\ cut' = cut)
              /\ blk_bytes' = Append(blk_bytes, bs)
              /\ AddDelta(WideDelta(bs))
              /\ UNCHANGED <<temp_byte, temp_first_4bit_processed_flag>>
       ELSE \* no branch assigns temp_inc_bit: the last value bound is used
            IF temp_inc_bit = Unbound
            THEN /\ Raise("UnboundLocalError")
                 /\ UNCHANGED <<temp_sample_value, temp_data_block, blk_deltas, iter,
                                temp_byte, temp_inc_bit,
                                temp_first_4bit_processed_flag, budget, eof, cut,
                                blk_bytes>>
            ELSE /\ AddDelta(WideDelta(temp_inc_bit))
                 /\ UNCHANGED <<temp_byte, temp_inc_bit,
                                temp_first_4bit_processed_flag, budget, eof, cut,
                                blk_bytes>>
    /\ UNCHANGED <<declared, t3w_header, magic, temp_data, temp_second_block,
                   temp_start_datetime_dt, header, stream>>
    /\ UNCHANGED <<catvars, logvars>>

\* the end of the delta loop: the block joins its frame, the last block of a
\* frame ends the frame
EndBlock ==
    /\ pc = "delta"
    /\ iter >= DeltaLoopLen(temp_data_block.data_size_per_data_block)
    /\ LET blocks == Append(temp_second_block.data, temp_data_block) IN
       IF Len(blocks) < NumChannel
       THEN /\ temp_second_block' = [temp_second_block EXCEPT !.data = blocks]
            /\ pc' = "block"
            /\ UNCHANGED temp_data
       ELSE /\ temp_second_block' = [temp_second_block EXCEPT !.data = blocks]
            /\ temp_data' = Append(temp_data, [temp_second_block EXCEPT !.data = blocks])
            /\ pc' = "frame"
    /\ UNCHANGED <<err, eof, budget, declared, t3w_header, magic, temp_data_block,
                   temp_sample_value, temp_first_4bit_processed_flag, temp_byte,
                   temp_inc_bit, temp_start_datetime_dt, iter, blk_bytes,
                   blk_deltas, cut, header, stream>>
    /\ UNCHANGED <<catvars, logvars>>

RECURSIVE Flatten(_)
\* the concatenation of a sequence of lists
Flatten(ls) == IF ls = <<>> THEN <<>> ELSE Head(ls) \o Flatten(Tail(ls))

\* [temp_data[j]["data"][i]["data"] for j in range(len(temp_data))]
ChannelLists(i) == [j \in 1..Len(temp_data) |-> temp_data[j].data[i].data]

\* np.array(lists) is not rectangular: neither numpy's refusal to build it
\* nor astype(np.int32) of an array of lists gives an int32 array
Ragged(ls) == \E j, k \in 1..Len(ls) : Len(ls[j]) # Len(ls[k])

\* np.array(lists).flatten().astype(np.int32) of a rectangular array. Every
\* sample of the model lies within int32, where astype keeps the value.
TraceData(ls) == Flatten(ls)

\* the exception the conversion of channel i ends with, "" when none
TraceError(i) ==
    IF Ragged(ChannelLists(i)) THEN "ValueError"
    ELSE IF temp_data = <<>> THEN "IndexError"
    ELSE IF temp_data[1].frame_length = 0 THEN "ZeroDivisionError"
    ELSE ""

\* the first channel whose conversion fails, 0 when none does
FirstBad ==
    IF \E i \in 1..NumChannel : TraceError(i) # ""
    THEN CHOOSE i \in 1..NumChannel :
           /\ TraceError(i) # ""
           /\ \A k \in 1..(i - 1) : TraceError(k) = ""
    ELSE 0

\* the conversion to traces and the returned header
Convert ==
    /\ pc = "convert"
    /\ IF FirstBad # 0
       THEN /\ Raise(TraceError(FirstBad))
            /\ UNCHANGED <<header, stream>>
       ELSE IF temp_data = <<>>
       THEN \* no channel at all: temp_data[0] of the header
            /\ Raise("IndexError")
            /\ UNCHANGED <<header, stream>>
       ELSE /\ stream' =
                [i \in 1..NumChannel |->
                    [data |-> TraceData(ChannelLists(i)),
                     delta_ms |-> temp_data[1].frame_length,
                     npts |-> Len(TraceData(ChannelLists(i))),
                     starttime |-> temp_start_datetime_dt]]
            /\ header' =
                [kind |-> "win32",
                 start_datatime |-> temp_data[1].start_datetime,
                 end_datetime |-> temp_data[Len(temp_data)].start_datetime,
                 delta_ms |-> temp_data[1].frame_length,
                 num_channel |-> NumChannel]
            /\ pc' = "done"
            /\ err' = err
    /\ UNCHANGED <<eof, budget, declared, t3w_header, magic, temp_data,
                   temp_second_block, temp_data_block, temp_sample_value,
                   temp_first_4bit_processed_flag, temp_byte, temp_inc_bit,
                   temp_start_datetime_dt, iter, blk_bytes, blk_deltas, cut>>
    /\ UNCHANGED <<catvars, logvars>>

Next ==
    \/ Construct
    \/ ReadFrameHeader
    \/ ReadBlockHeader
    \/ DeltaStep
    \/ EndBlock
    \/ Convert

Spec == InitWin32 /\ [][Next]_vars

(***************************************************************************)
(* T3WHandler.                                                             *)
(***************************************************************************)
RECURSIVE Str(_)
\* str(n) of a number n >= 0: its decimal digits
Str(n) == IF n < 10 THEN <<n>> ELSE Append(Str(n \div 10), n % 10)

RECURSIVE ZFill(_, _)
\* s.zfill(w): zeros in front up to width w
ZFill(ds, w) == IF Len(ds) >= w THEN ds ELSE ZFill(<<0>> \o ds, w)

\* a timestamp group of the header, seven 16-bit fields: the digits of each,
\* zero-filled to 2 (the last to 4), one after the other
StampString(g) ==
    ZFill(Str(g[1]), 2) \o ZFill(Str(g[2]), 2) \o ZFill(Str(g[3]), 2) \o
    ZFill(Str(g[4]), 2) \o ZFill(Str(g[5]), 2) \o ZFill(Str(g[6]), 2) \o
    ZFill(Str(g[7]), 4)

\* the timestamp groups a header is drawn from: 2024-01-01 12:00:00 and the
\* same with a month of 0
GoodGroup == <<2024, 1, 1, 12, 0, 0, 0>>
BadGroup == <<2024, 0, 1, 12, 0, 0, 0>>
StampGroups == {GoodGroup, BadGroup}

\* the sampling_num_per_channel values a header is drawn from
SamplingNums == {2, 3}
\* the sampling_time_interval values (ms) a header is drawn from
SamplingIntervals == {10}
\* the delay_time values a header is drawn from
DelayTimes == {5}

\* the lengths of the file: too short for the last field of the header (bytes
\* 829..830), or the whole 1024-byte header and a payload
T3WFileLengths == {100, 1024}

\* a header reader that takes the field next to the sampling interval
RecordingDurationDelay(num, interval, delay) == num * delay
\* recording_duration in milliseconds: the code divides this product by 1000
\* to get seconds
RecordingDuration(num, interval, delay) == num * interval

InitT3W ==
    /\ pc = "t3w"
    /\ err = ""
    /\ eof = FALSE
    /\ budget = T3WDeltaBytes
    /\ declared = MaxDeclared
    /\ t3w_header = NoHeader
    /\ magic = <<>>
    /\ temp_data = <<>>
    /\ temp_second_block = NoFrame
    /\ temp_data_block = NoBlock
    /\ temp_sample_value = 0
    /\ temp_first_4bit_processed_flag = FALSE
    /\ temp_byte = Unbound
    /\ temp_inc_bit = Unbound
    /\ temp_start_datetime_dt = Unbound
    /\ iter = 0
    /\ blk_bytes = <<>>
    /\ blk_deltas = <<>>
    /\ cut = NoCut
    /\ header = NoOutput
    /\ stream = <<>>
    /\ CatalogIdle
    /\ LogIdle

\* _read_t3w_file up to the header: the fields of the first 1024 bytes
ReadT3WHeader ==
    /\ pc = "t3w"
    /\ \E flen \in T3WFileLengths, num \in SamplingNums,
          interval \in SamplingIntervals, delay \in DelayTimes,
          this \in StampGroups, first \in StampGroups :
         IF flen < 830
         THEN \* struct.unpack of a slice that is too short
              /\ Raise("struct.error")
              /\ UNCHANGED t3w_header
         ELSE /\ t3w_header' =
                    [kind |-> "t3w",
                     sampling_num_per_channel |-> num,
                     sampling_time_interval |-> interval,
                     delay_time |-> delay,
                     sequence_number |-> 0,
                     start_datetime_this_file |-> StampString(this),
                     start_datetime_first_file |-> StampString(first),
                     recording_duration_ms |-> RecordingDuration(num, interval, delay)]
              /\ pc' = "construct"
              /\ err' = err
    /\ UNCHANGED <<eof, budget, declared, magic, temp_data, temp_second_block,
                   temp_data_block, temp_sample_value,
                   temp_first_4bit_processed_flag, temp_byte, temp_inc_bit,
                   temp_start_datetime_dt, iter, blk_bytes, blk_deltas, cut, header,
                   stream>>
    /\ UNCHANGED <<catvars, logvars>>

\* _read_win32_data after Win32Handler(bin_data=...) has returned: get_header()
\* of a handler that decoded nothing finds no header attribute
ReadWin32Data ==
    /\ t3w_header # NoHeader
    /\ pc \in {"done", "nodecode"}
    /\ IF pc = "nodecode" THEN Raise("AttributeError")
       ELSE pc' = "t3w_done" /\ err' = err
    /\ UNCHANGED <<eof, budget, declared, t3w_header, magic, temp_data,
                   temp_second_block, temp_data_block, temp_sample_value,
                   temp_first_4bit_processed_flag, temp_byte, temp_inc_bit,
                   temp_start_datetime_dt, iter, blk_bytes, blk_deltas, cut, header,
                   stream>>
    /\ UNCHANGED <<catvars, logvars>>

NextT3W ==
    \/ ReadT3WHeader
    \/ Construct
    \/ ReadFrameHeader
    \/ ReadBlockHeader
    \/ DeltaStep
    \/ EndBlock
    \/ Convert
    \/ ReadWin32Data

SpecT3W == InitT3W /\ [][NextT3W]_vars

(***************************************************************************)
(* DataFormatter (src/format.py): the catalog of recordings and logs.      *)
(*                                                                         *)
(* Instants are whole seconds on one clock.  A recording file is known by  *)
(* its subdirectory, the instant its stem names and what T3WHandler reads  *)
(* from its header; a log file by its subdirectory and the stats that      *)
(* LogHandler computes from it.                                            *)
(***************************************************************************)
\* recording files a data directory holds at most
MaxRecordings == 3

\* sub_dir_index of the subdirectories of data_dir
SubDirs == {0, 1}
\* the instants the stems of the recording files name
Stems == {0, 300, 700}
\* header["recording_duration"], in seconds
Durations == {300, 400}
\* header["sequence_number"]
SequenceNumbers == {0, 1}

\* the values a cell of a location column holds: None, a float, and after
\* read_csv(dtype="str") a string or the NaN of an empty cell
NoneValue == [t |-> "None"]
NaN == [t |-> "nan"]
Num(x) == [t |-> "float", v |-> x]
Text(x) == [t |-> "str", v |-> x]

temp_location_columns ==
    {"latitude", "longitude", "altitude", "geoid_height", "num_satellites", "HDOP"}

\* a row whose six location columns all hold c
AllColumns(c) == [col \in temp_location_columns |-> c]

\* the data directory: each (subdirectory, stem) names at most one recording
\* file, whose header gives a duration and a sequence number
FileKeys == SubDirs \X Stems
HeaderFields == [recording_duration : Durations, sequence_number : SequenceNumbers]
Directories ==
    UNION { [K -> HeaderFields] :
              K \in {S \in SUBSET FileKeys : Cardinality(S) \in 1..MaxRecordings} }

\* LogHandler.stats of a log that spans [s, e] and resolves to fix v
LogStats(s, e, v) ==
    [start_time |-> s, end_time |-> e, latitude |-> v, longitude |-> v,
     altitude |-> v, geoid_height |-> v, num_satellites |-> v, HDOP |-> v]
LogFile(d, s, e, v) == [sub_dir_index |-> d, data |-> LogStats(s, e, v)]

\* logs of subdirectory 0 that end at 300, span 301..699 and start at 400,
\* and a log of subdirectory 1 that spans everything
LogA == LogFile(0, 0, 300, Num(35))
LogB == LogFile(0, 301, 699, Num(36))
LogC == LogFile(0, 400, 1200, Num(37))
LogD == LogFile(1, 0, 1200, Num(38))

\* the log files of the data directory, in the order of their
\* (sub_dir_index, stem)
LogLists ==
    { <<>>, <<LogA>>, <<LogB>>, <<LogC>>, <<LogD>>, <<LogA, LogC>>, <<LogC, LogA>>,
      <<LogB, LogD>>, <<LogA, LogB, LogD>> }

\* t3w_file_list.csv as an earlier run left it: every row in group 0, and
\* either unmatched with empty location cells or matched to log 0 with the
\* location cells filled
PersistedMatches == {0}
PersistedCatalog(n, m) ==
    [exists |-> TRUE,
     group_index |-> [k \in 1..n |-> 0],
     match_log_index |-> [k \in 1..n |-> m],
     location |-> [k \in 1..n |-> AllColumns(IF m = -1 THEN NaN ELSE Text(35))]]

NoData == [kind |-> "none"]

\* (sub_dir_index, stem) of a before that of b
KeyBefore(a, b) == a[1] < b[1] \/ (a[1] = b[1] /\ a[2] <= b[2])

\* sort_values(by=["sub_dir_index", "stem"]).reset_index(drop=True)
RECURSIVE SortKeys(_)
SortKeys(K) ==
    IF K = {} THEN <<>>
    ELSE LET m == CHOOSE k \in K : \A o \in K : KeyBefore(k, o)
         IN <<m>> \o SortKeys(K \ {m})

\* the rows of t3w_file_list for the files of directory dir, before loading
Rows(dir) ==
    LET ks == SortKeys(DOMAIN dir)
    IN [k \in 1..Len(ks) |->
          [sub_dir_index |-> ks[k][1], stem |-> ks[k][2], file_path |-> "stored",
           data |-> NoData]]

\* the files that can be bad: a recording that T3WHandler fails to decode
\* ("decode"), a recording whose header timestamps strptime cannot parse
\* ("header"), and, for a persisted catalog, a recording or a log whose
\* stored path is gone and that is ("moved") or is not ("gone", "log_gone")
\* at data_dir / rel_file_path
Faults(n, m, reload) ==
    {NoFault}
      \cup {[kind |-> c, row |-> r] : c \in {"decode", "header"}, r \in 1..n}
      \cup (IF reload
            THEN {[kind |-> c, row |-> r] : c \in {"gone", "moved"}, r \in 1..n}
                   \cup {[kind |-> "log_gone", row |-> j] : j \in 1..m}
            ELSE {})

\* Path(p).exists() for the stored path of recording row r and for
\* data_dir / rel_file_path
T3WExists(r, p) ==
    ~( /\ fault.row = r
       /\ \/ fault.kind = "gone"
          \/ fault.kind = "moved" /\ p = "stored" )

\* Path(p).exists() for either path of log row j
LogExists(j, p) == ~(fault.row = j /\ fault.kind = "log_gone")

\* the path a row of a persisted catalog gets: the stored one if it exists,
\* else data_dir / rel_file_path
Resolved(exists) == IF exists THEN "stored" ELSE "rel"

\* file_path.apply(lambda x: Path(x)).all(): a Path object is truthy whether
\* or not the file exists
AllTruthy(rows) == \A k \in 1..Len(rows) : TRUE

\* T3WHandler raises for recording row k
Undecodable(k) == fault.kind = "decode" /\ fault.row = k

\* a header timestamp of recording row k is no date
UnparsableHeader(k) == fault.kind = "header" /\ fault.row = k

InitCatalog ==
    /\ cat_pc = "create"
    /\ cat_err = ""
    /\ t3w_files \in Directories
    /\ log_files \in LogLists
    /\ persisted \in {NoCatalog}
                       \cup {PersistedCatalog(Cardinality(DOMAIN t3w_files), m) :
                               m \in PersistedMatches}
    /\ flag_leave_original \in BOOLEAN
    /\ t3w_file_list = <<>>
    /\ log_file_list = <<>>
    /\ group_index = <<>>
    /\ match_log_index = <<>>
    /\ location = <<>>
    /\ temp_group_index = 0
    /\ match_i = 0
    /\ warnings = <<>>
    /\ exported = <<>>
    /\ fault = NoFault
    /\ DecoderIdle
    /\ LogIdle

\* _create_file_list: _import_file_list when log_file_list.csv exists, else
\* _create_file_list_from_scratch
CreateFileList ==
    /\ cat_pc = "create"
    /\ IF persisted.exists
       THEN LET t3w == [k \in 1..Len(Rows(t3w_files)) |->
                         [Rows(t3w_files)[k] EXCEPT
                            !.file_path = Resolved(T3WExists(k, "stored"))]]
                log == [j \in 1..Len(log_files) |->
                         [sub_dir_index |-> log_files[j].sub_dir_index,
                          file_path |-> Resolved(LogExists(j, "stored")),
                          data |-> NoData]]
            IN IF ~AllTruthy(log) \/ ~AllTruthy(t3w)
               THEN /\ cat_pc' = "error"
                    /\ cat_err' = "FileNotFoundError"
                    /\ UNCHANGED <<t3w_file_list, log_file_list, group_index,
                                   match_log_index, location>>
               ELSE /\ t3w_file_list' = t3w
                    /\ log_file_list' = log
                    /\ group_index' = persisted.group_index
                    /\ match_log_index' = persisted.match_log_index
                    /\ location' = persisted.location
                    /\ cat_pc' = "load"
                    /\ cat_err' = cat_err
       ELSE /\ t3w_file_list' = Rows(t3w_files)
            /\ log_file_list' =
                 [j \in 1..Len(log_files) |->
                    [sub_dir_index |-> log_files[j].sub_dir_index,
                     file_path |-> "stored", data |-> NoData]]
            /\ group_index' = <<>>
            /\ match_log_index' = <<>>
            /\ location' = [k \in 1..Cardinality(DOMAIN t3w_files) |->
                              AllColumns(NoneValue)]
            /\ cat_pc' = "load"
            /\ cat_err' = cat_err
    /\ UNCHANGED <<t3w_files, log_files, persisted, flag_leave_original,
                   temp_group_index, match_i, warnings, exported, fault>>
    /\ UNCHANGED <<decvars, logvars>>

\* _load_files: a LogHandler for every log row, a T3WHandler for every
\* recording row
LoadFiles ==
    /\ cat_pc = "load"
    /\ LET Loaded(k) == [t3w_file_list[k] EXCEPT
                           !.data = t3w_files[<<t3w_file_list[k].sub_dir_index,
                                                t3w_file_list[k].stem>>]]
           badlog == {j \in 1..Len(log_file_list) :
                        ~LogExists(j, log_file_list[j].file_path)}
           badt3w == {k \in 1..Len(t3w_file_list) :
                        \/ ~T3WExists(k, t3w_file_list[k].file_path)
                        \/ Undecodable(k)}
           first == CHOOSE k \in badt3w : \A o \in badt3w : k <= o
       IN IF badlog # {}
          THEN \* open() in LogHandler._read_log_data_raw
               /\ cat_pc' = "error"
               /\ cat_err' = "FileNotFoundError"
               /\ UNCHANGED <<log_file_list, t3w_file_list>>
          ELSE /\ log_file_list' =
                    [j \in 1..Len(log_file_list) |->
                       [log_file_list[j] EXCEPT !.data = log_files[j].data]]
               /\ IF badt3w # {}
                  THEN \* open() in T3WHandler._read_t3w_file, or the decoder
                       /\ cat_pc' = "error"
                       /\ cat_err' = IF T3WExists(first, t3w_file_list[first].file_path)
                                     THEN "T3WHandler" ELSE "FileNotFoundError"
                       /\ t3w_file_list' =
                            [k \in 1..Len(t3w_file_list) |->
                               IF k < first THEN Loaded(k) ELSE t3w_file_list[k]]
                  ELSE /\ cat_pc' = "match"
                       /\ cat_err' = cat_err
                       /\ t3w_file_list' =
                            [k \in 1..Len(t3w_file_list) |-> Loaded(k)]
    /\ UNCHANGED <<t3w_files, log_files, persisted, flag_leave_original,
                   group_index, match_log_index, location, temp_group_index,
                   match_i, warnings, exported, fault>>
    /\ UNCHANGED <<decvars, logvars>>

\* _match_files up to its loop: both columns are set to -1 in every row
MatchInit ==
    /\ cat_pc = "match"
    /\ match_log_index' = [k \in 1..Len(t3w_file_list) |-> -1]
    /\ group_index' = [k \in 1..Len(t3w_file_list) |-> -1]
    /\ temp_group_index' = 0
    /\ match_i' = 0
    /\ cat_pc' = "loop"
    /\ UNCHANGED <<cat_err, t3w_files, log_files, persisted, flag_leave_original,
                   t3w_file_list, log_file_list, location, warnings, exported,
                   fault>>
    /\ UNCHANGED <<decvars, logvars>>

\* temp_end_datetime_from_t3w of a row
EndOf(row) == row.stem + row.data.recording_duration

\* the row starts later than the row before it ends, by any amount: the test
\* of a variant that only looks for gaps
GapOnly(prev, row) == row.stem - prev.stem - prev.data.recording_duration > 0

\* the test that opens a new group: the row does not start exactly where the
\* row before it ends
Discontinuous(prev, row) ==
    row.stem - prev.stem - prev.data.recording_duration # 0

\* the index of a variant that leaves one out when it opens a group
NewGroupSkipping(g) == g + 2

\* temp_group_index += 1
NewGroup(g) == g + 1

\* the test of a variant that matches across subdirectories
OverlapsAnywhere(row, log) ==
    /\ log.data.start_time <= EndOf(row)
    /\ row.stem <= log.data.end_time

\* the test of a variant that warns for every nonzero sequence number
WarnAnywhere(g, gprev, seq) == seq # 0

\* the two tests in front of logger.warning
WarnMissing(g, gprev, seq) == g # gprev /\ seq # 0

\* the test of a variant whose upper bound is exclusive
OverlapsExclusive(row, log) ==
    /\ log.data.start_time <= EndOf(row)
    /\ row.stem < log.data.end_time
    /\ row.sub_dir_index = log.sub_dir_index

\* the test of a variant that only looks at the end of the log
OverlapsUpper(row, log) ==
    /\ row.stem <= log.data.end_time
    /\ row.sub_dir_index = log.sub_dir_index

\* the test of the loop over the logs
Overlaps(row, log) ==
    /\ log.data.start_time <= EndOf(row)
    /\ row.stem <= log.data.end_time
    /\ row.sub_dir_index = log.sub_dir_index

\* the j the loop over the logs stops at, counted from 0 as the code counts,
\* or the -1 the column was set to
MatchLog(row) ==
    LET hits == {j \in 1..Len(log_file_list) : Overlaps(row, log_file_list[j])}
    IN IF hits = {} THEN -1
       ELSE (CHOOSE j \in hits : \A o \in hits : j <= o) - 1

\* one iteration of the loop of _match_files, for row match_i + 1
MatchStep ==
    /\ cat_pc = "loop"
    /\ match_i < Len(t3w_file_list)
    /\ LET k == match_i + 1
           row == t3w_file_list[k]
           g == IF k = 1 THEN temp_group_index
                ELSE IF Discontinuous(t3w_file_list[k - 1], row)
                     THEN NewGroup(temp_group_index)
                     ELSE temp_group_index
       IN IF UnparsableHeader(k)
          THEN \* strptime of a header timestamp
               /\ cat_pc' = "error"
               /\ cat_err' = "ValueError"
               /\ UNCHANGED <<temp_group_index, group_index, warnings,
                              match_log_index, match_i>>
          ELSE /\ temp_group_index' = g
               /\ group_index' = [group_index EXCEPT ![k] = g]
               /\ warnings' =
                    IF k > 1 /\ WarnMissing(g, group_index[k - 1],
                                            row.data.sequence_number)
                    THEN Append(warnings, k) ELSE warnings
               /\ match_log_index' = [match_log_index EXCEPT ![k] = MatchLog(row)]
               /\ match_i' = k
               /\ UNCHANGED <<cat_pc, cat_err>>
    /\ UNCHANGED <<t3w_files, log_files, persisted, flag_leave_original,
                   t3w_file_list, log_file_list, location, exported, fault>>
    /\ UNCHANGED <<decvars, logvars>>

\* the location columns of row k in a variant that writes 0 where no log
\* matched
MergedZeroFilled(k) ==
    IF match_log_index[k] = -1 THEN AllColumns(Num(0))
    ELSE [col \in temp_location_columns |->
            IF location[k][col] = NoneValue
            THEN log_file_list[match_log_index[k] + 1].data[col]
            ELSE location[k][col]]

\* the location columns of row k in a variant that also overwrites the
\* fields that are set
MergedOverwriting(k) ==
    IF match_log_index[k] = -1 THEN location[k]
    ELSE [col \in temp_location_columns |->
            log_file_list[match_log_index[k] + 1].data[col]]

\* the location columns of row k after the loop of _marge_log_files
Merged(k) ==
    IF match_log_index[k] = -1 THEN location[k]
    ELSE [col \in temp_location_columns |->
            IF location[k][col] = NoneValue
            THEN log_file_list[match_log_index[k] + 1].data[col]
            ELSE location[k][col]]

\* the end of the loop of _match_files, then _marge_log_files and the
\* _export_file_list it ends with
MargeLogFiles ==
    /\ cat_pc = "loop"
    /\ match_i = Len(t3w_file_list)
    /\ location' = IF flag_leave_original THEN location
                   ELSE [k \in 1..Len(t3w_file_list) |-> Merged(k)]
    /\ exported' = [group_index |-> group_index,
                    match_log_index |-> match_log_index,
                    location |-> location']
    /\ cat_pc' = "finished"
    /\ UNCHANGED <<cat_err, t3w_files, log_files, persisted, flag_leave_original,
                   t3w_file_list, log_file_list, group_index, match_log_index,
                   temp_group_index, match_i, warnings, fault>>
    /\ UNCHANGED <<decvars, logvars>>

NextCatalog ==
    \/ CreateFileList
    \/ LoadFiles
    \/ MatchInit
    \/ MatchStep
    \/ MargeLogFiles

SpecCatalog == InitCatalog /\ [][NextCatalog]_vars

\* the catalog of a directory of plain recordings (300 s each, sequence
\* number 0) in which one file may be bad
InitCatalogFaults ==
    /\ cat_pc = "create"
    /\ cat_err = ""
    /\ t3w_files \in {d \in Directories :
                        \A key \in DOMAIN d :
                          d[key] = [recording_duration |-> 300,
                                    sequence_number |-> 0]}
    /\ log_files \in LogLists
    /\ persisted \in {NoCatalog}
                       \cup {PersistedCatalog(Cardinality(DOMAIN t3w_files), m) :
                               m \in PersistedMatches}
    /\ flag_leave_original = FALSE
    /\ t3w_file_list = <<>>
    /\ log_file_list = <<>>
    /\ group_index = <<>>
    /\ match_log_index = <<>>
    /\ location = <<>>
    /\ temp_group_index = 0
    /\ match_i = 0
    /\ warnings = <<>>
    /\ exported = <<>>
    /\ fault \in Faults(Cardinality(DOMAIN t3w_files), Len(log_files),
                        persisted.exists)
    /\ DecoderIdle
    /\ LogIdle

SpecCatalogFaults == InitCatalogFaults /\ [][NextCatalog]_vars

(***************************************************************************)
(* LogHandler (src/log.py): the fix and the validity window of a log.      *)
(*                                                                         *)
(* A time of day is in whole seconds, a date is the number of its day, a   *)
(* latitude or longitude field is in whole minutes (ddmm), and HDOP is in  *)
(* tenths.  A mean is kept exact, as the sum and the count of its terms.   *)
(***************************************************************************)
\* $GPGGA lines a log file holds at most
MaxSentences == 5

\* a $GPGGA line; full is FALSE when one of its fields other than id is empty
GGA(t, lat, ns, lon, ew, q, hdop, full) ==
    [UTC_time |-> t, latitude |-> lat, NS |-> ns, longitude |-> lon, EW |-> ew,
     quality |-> q, num_satellites |-> 8, HDOP |-> hdop, altitude |-> lat \div 100,
     geoid_height |-> 30, full |-> full]

\* the $GPGGA lines of the logs: fixes of quality 1 and 2 with HDOP 2.1 and
\* 1.0 in either hemisphere, one of them late in the day, a line without a
\* fix whose HDOP is the lowest, another whose HDOP is the highest, and a line
\* with an empty field
Sentences ==
    { GGA(10, 3530, "N", 13945, "E", 1, 21, TRUE),
      GGA(20, 3600, "N", 13900, "E", 1, 10, TRUE),
      GGA(30, 3530, "S", 13945, "W", 1, 10, TRUE),
      GGA(40, 3600, "N", 13900, "E", 0, 5, TRUE),
      GGA(86390, 3530, "N", 13945, "W", 2, 10, TRUE),
      GGA(50, 3600, "N", 13900, "E", 1, 5, FALSE),
      GGA(60, 3545, "S", 13900, "E", 0, 30, TRUE) }

\* a $GPZDA line of day d
ZDA(d, full) == [day |-> d, full |-> full]

\* the $GPZDA lines of the logs: none, one, and two of which the first has an
\* empty field
ZDALists == { <<>>, <<ZDA(1, TRUE)>>, <<ZDA(1, FALSE), ZDA(2, TRUE)>> }

GGALists == UNION { [1..n -> Sentences] : n \in 0..MaxSentences }

\* replace("", pd.NA).dropna(axis="index").reset_index(drop=True)
DropNA(ls) == LET Full(l) == l.full IN SelectSeq(ls, Full)

\* x.replace(year, month, day) of the time of day t
Timestamp(d, t) == d * 86400 + t

\* int(x / 100) + (x % 100) / 60, in minutes
Degrees(x) == 60 * (x \div 100) + (x % 100)

\* 1 if self.raw_GPGGA[col][0] == positive else -1: the factor of every line
Sign(l, first, col, positive) == IF first[col] = positive THEN 1 ELSE -1

\* the row of self.raw_GPGGA that line l becomes
Converted(l, first, d) ==
    [UTC_time |-> Timestamp(d, l.UTC_time),
     latitude |-> Degrees(l.latitude) * Sign(l, first, "NS", "N"),
     longitude |-> Degrees(l.longitude) * Sign(l, first, "EW", "E"),
     quality |-> l.quality, num_satellites |-> l.num_satellites,
     HDOP |-> l.HDOP, altitude |-> l.altitude, geoid_height |-> l.geoid_height]

InitLog ==
    /\ log_pc = "raw"
    /\ log_err = ""
    /\ temp_line_GPGGA \in GGALists
    /\ temp_line_GPZDA \in ZDALists
    /\ raw_GPGGA = <<>>
    /\ stats = NoStats
    /\ DecoderIdle
    /\ CatalogIdle

\* _read_log_data_raw: element 0 of an empty column is a KeyError
ReadLogDataRaw ==
    /\ log_pc = "raw"
    /\ LET gga == DropNA(temp_line_GPGGA)
           zda == DropNA(temp_line_GPZDA)
       IN IF zda = <<>> \/ gga = <<>>
          THEN /\ log_pc' = "error"
               /\ log_err' = "KeyError"
               /\ raw_GPGGA' = raw_GPGGA
          ELSE /\ raw_GPGGA' = [n \in 1..Len(gga) |->
                                  Converted(gga[n], gga[1], zda[1].day)]
               /\ log_pc' = "process"
               /\ log_err' = log_err
    /\ UNCHANGED <<temp_line_GPGGA, temp_line_GPZDA, stats>>
    /\ UNCHANGED <<decvars, catvars>>

\* the filter of a variant that keeps the rows without a fix
AnyQuality(rows) == rows

\* self.raw_GPGGA[self.raw_GPGGA["quality"] >= 1]
QualityFiltered(rows) == LET Fixed(r) == r.quality >= 1 IN SelectSeq(rows, Fixed)

\* rows[rows["HDOP"] == rows["HDOP"].min()]: the minimum of no rows is NaN,
\* which no row equals
HDOPFiltered(rows) ==
    LET Least(r) == \A n \in 1..Len(rows) : r.HDOP <= rows[n].HDOP
    IN SelectSeq(rows, Least)

RECURSIVE SumOf(_, _)
SumOf(rows, col) ==
    IF rows = <<>> THEN 0 ELSE Head(rows)[col] + SumOf(Tail(rows), col)

\* .mean() of a column: NaN for no rows
Mean(rows, col) ==
    IF rows = <<>> THEN NaN
    ELSE [t |-> "mean", sum |-> SumOf(rows, col), n |-> Len(rows)]

\* the window of a variant that takes it from the rows of the fix
WindowOfFix(rows) ==
    LET sel == HDOPFiltered(QualityFiltered(rows))
    IN IF sel = <<>> THEN <<rows[1].UTC_time, rows[Len(rows)].UTC_time>>
       ELSE <<sel[1].UTC_time, sel[Len(sel)].UTC_time>>

\* self.raw_GPGGA["UTC_time"].iloc[0] and .iloc[-1]
Window(rows) == <<rows[1].UTC_time, rows[Len(rows)].UTC_time>>

\* _process_log_data
ProcessLogData ==
    /\ log_pc = "process"
    /\ LET temp_raw_GPGGA_filtered == HDOPFiltered(QualityFiltered(raw_GPGGA))
       IN stats' =
            [kind |-> "stats",
             latitude |-> Mean(temp_raw_GPGGA_filtered, "latitude"),
             longitude |-> Mean(temp_raw_GPGGA_filtered, "longitude"),
             quality |-> Mean(temp_raw_GPGGA_filtered, "quality"),
             num_satellites |-> Mean(temp_raw_GPGGA_filtered, "num_satellites"),
             HDOP |-> Mean(temp_raw_GPGGA_filtered, "HDOP"),
             altitude |-> Mean(temp_raw_GPGGA_filtered, "altitude"),
             geoid_height |-> Mean(temp_raw_GPGGA_filtered, "geoid_height"),
             start_time |-> Window(raw_GPGGA)[1],
             end_time |-> Window(raw_GPGGA)[2]]
    /\ log_pc' = "done"
    /\ UNCHANGED <<log_err, temp_line_GPGGA, temp_line_GPZDA, raw_GPGGA>>
    /\ UNCHANGED <<decvars, catvars>>

NextLog ==
    \/ ReadLogDataRaw
    \/ ProcessLogData

SpecLog == InitLog /\ [][NextLog]_vars

(***************************************************************************)
(* Properties of Win32Handler.read_bin_data, checked under Spec.           *)
(***************************************************************************)
\* the decoder has ended: it returned or it raised
Ended == pc \in {"done", "error"}

\* the blocks decoded to their end: those of the frames kept and those of the
\* frame being decoded
DoneBlocks ==
    {temp_data[j].data[i] : j \in 1..Len(temp_data), i \in 1..NumChannel}
        \cup {temp_second_block.data[i] : i \in 1..Len(temp_second_block.data)}

\* the returned traces are the frames' sample lists, one after the other
StreamIsConcat ==
    /\ pc = "done"
    /\ \A i \in 1..NumChannel : stream[i].data = Flatten(ChannelLists(i))

\* the signed value of a 4-bit nibble
Signed4(n) == IF n >= 8 THEN n - 16 ELSE n

\* C1: in a block of sample-size code 0 every payload byte yields two
\* consecutive deltas, the signed 4-bit value of its high nibble and then that
\* of its low nibble (bytes 0x12 0x34 yield +1, +2, +3, +4).
C1_NibbleOrder ==
    (pc = "delta" /\ temp_data_block.sample_size = 0) =>
        \A k \in 1..Len(blk_deltas) :
            LET b == blk_bytes[(k + 1) \div 2] IN
            Len(b) = 1 =>
                blk_deltas[k] = IF k % 2 = 1 THEN Signed4(b[1] \div 16)
                                ELSE Signed4(b[1] % 16)

\* C2: a payload that ends inside a channel block (after the frame header,
\* before the last declared delta byte) never decodes to returned sample
\* arrays: the decode fails.
C2_TruncatedBlockFails ==
    pc = "done" => cut.where \notin {"block", "delta"}

\* C3: a block whose sample-size code is 5..15 and whose count is at least 2
\* makes the decode fail, whatever codes earlier blocks used: no sample array
\* is returned for a payload that holds such a block.
C3_UnsupportedSampleSizeFails ==
    pc = "done" =>
        \A b \in DoneBlocks :
            ~(b.sample_size > 4 /\ b.data_size_per_data_block >= 2)

\* the two's complement value of the bytes bs, from the weight of the sign bit:
\* the low bits, less 2^(8*Len(bs)-1) when the top bit is set
TwosComplement(bs) ==
    IF bs[1] < 128 THEN UnsignedBE(bs)
    ELSE UnsignedBE(<<bs[1] - 128>> \o Tail(bs))
           - UnsignedBE(<<127>> \o [k \in 1..(Len(bs) - 1) |-> 255]) - 1

\* C4: in a block of sample-size code c in 1..4, delta k is the signed
\* big-endian value of the c bytes of the k-th read, taken in stream order and
\* added to the sample before it; 0xFF 0xFF 0xFF under code 3 is -1.
C4_WideDeltas ==
    (pc = "delta" /\ temp_data_block.sample_size \in 1..4) =>
        /\ Len(blk_deltas) = Len(blk_bytes)
        /\ \A k \in 1..Len(blk_deltas) :
             /\ Len(blk_bytes[k]) <= temp_data_block.sample_size
             /\ Len(blk_bytes[k]) < temp_data_block.sample_size => eof
        /\ \A k \in 1..Len(blk_deltas) :
             Len(blk_bytes[k]) = temp_data_block.sample_size =>
                /\ blk_deltas[k] = TwosComplement(blk_bytes[k])
                /\ temp_data_block.data[k + 1] =
                       temp_data_block.data[k] + TwosComplement(blk_bytes[k])
                /\ (blk_bytes[k] = <<255, 255, 255>> => blk_deltas[k] = -1)

\* a block of code 3 whose delta bytes 0xFF 0xFF 0xFF were read whole
C4_Witness ==
    /\ pc = "delta"
    /\ temp_data_block.sample_size = 3
    /\ blk_bytes = << <<255, 255, 255>> >>
    /\ blk_deltas = <<-1>>
    /\ temp_data_block.data = <<-2, -3>>

\* C5: the sample list of every block decoded to its end has exactly as many
\* elements as the block's 12-bit count declares, for every count 0..4095.
C5_BlockLength ==
    \A b \in DoneBlocks : Len(b.data) = b.data_size_per_data_block

\* C6: a payload that ends inside a frame header, after 1 to 15 of its 16
\* bytes and after at least one whole frame, decodes without error to the
\* samples of the whole frames.
C6_PartialHeaderEndsStream ==
    ( /\ Ended
      /\ cut.where = "frame"
      /\ cut.n \in 1..15
      /\ Len(temp_data) >= 1
      /\ err # "ValueError: Invalid datetime format"
      /\ \A j \in 1..Len(temp_data), i \in 1..NumChannel :
           Len(temp_data[j].data[i].data) = Len(temp_data[1].data[i].data) )
        => StreamIsConcat

\* C7: a payload of the 4-byte magic field and nothing else decodes without
\* error to traces that are empty.
C7_NoFrameDecodes ==
    ( /\ Ended
      /\ Len(magic) = 4
      /\ cut.where = "frame"
      /\ cut.n = 0
      /\ temp_data = <<>> )
        => (pc = "done" /\ \A i \in 1..NumChannel : stream[i].data = <<>>)

RECURSIVE SumCounts(_, _)
\* the sum of the counts the first j frames declare for channel i
SumCounts(i, j) ==
    IF j = 0 THEN 0
    ELSE SumCounts(i, j - 1) + temp_data[j].data[i].data_size_per_data_block

\* C8: the trace of every channel is the concatenation, in frame order, of the
\* channel's block sample lists, as long as the declared counts add up to,
\* also when the frames declare different counts. (Blocks that declare no
\* sample are C5's case and are left out here.)
C8_Concatenation ==
    ( /\ Ended
      /\ cut.where = "frame"
      /\ cut.n = 0
      /\ Len(temp_data) >= 1
      /\ \A j \in 1..Len(temp_data), i \in 1..NumChannel :
           temp_data[j].data[i].data_size_per_data_block >= 1 )
        => /\ StreamIsConcat
           /\ \A i \in 1..NumChannel :
                Len(stream[i].data) = SumCounts(i, Len(temp_data))

(***************************************************************************)
(* Properties of T3WHandler, checked under SpecT3W.                        *)
(***************************************************************************)
\* C9 as stated: recording_duration is the first frame's declared count times
\* the sampling interval.
C9_FirstFrameCount ==
    pc = "t3w_done" =>
        t3w_header.recording_duration_ms =
            temp_data[1].data[1].data_size_per_data_block
                * t3w_header.sampling_time_interval

\* C9, amended: recording_duration is the header's sampling_num_per_channel
\* times the sampling interval, from the moment the header is read; no frame
\* of the payload changes it, whatever count it declares.
C9_HeaderCount ==
    t3w_header # NoHeader =>
        t3w_header.recording_duration_ms =
            t3w_header.sampling_num_per_channel * t3w_header.sampling_time_interval

\* a recording returned whose frames declare another count than the header
C9_Witness ==
    /\ pc = "t3w_done"
    /\ Len(temp_data) = 2
    /\ temp_data[1].data[1].data_size_per_data_block
           # t3w_header.sampling_num_per_channel
    /\ temp_data[2].data[2].data_size_per_data_block
           # t3w_header.sampling_num_per_channel

\* C10: no recording is returned whose header carries a timestamp string that
\* does not parse: the decode of such a file fails.
C10_MalformedHeaderFails ==
    pc = "t3w_done" =>
        /\ Parsable(t3w_header.start_datetime_this_file)
        /\ Parsable(t3w_header.start_datetime_first_file)

(***************************************************************************)
(* Properties of DataFormatter, checked under SpecCatalog.                 *)
(***************************************************************************)
\* start(k) and duration(k) of row k, as _match_files reads them
StartOf(k) == t3w_file_list[k].stem
DurationOf(k) == t3w_file_list[k].data.recording_duration

\* the loop of _match_files is running or has run
InPass == cat_pc \in {"loop", "finished"}

\* C11: the first recording gets group index 0, and every later recording
\* gets the group index of the recording before it when it starts exactly
\* where that one ends (start(i) = start(i-1) + duration(i-1)) and that index
\* plus one otherwise; three recordings of duration 300 that start at T,
\* T + 300 and T + 700 get the groups 0, 0, 1.
C11_GroupingRule ==
    InPass =>
      /\ \A k \in 1..match_i :
           group_index[k] =
             IF k = 1 THEN 0
             ELSE IF StartOf(k) = StartOf(k - 1) + DurationOf(k - 1)
                  THEN group_index[k - 1]
                  ELSE group_index[k - 1] + 1
      /\ ( /\ match_i >= 3
           /\ \E T \in Stems :
                /\ StartOf(1) = T /\ StartOf(2) = T + 300 /\ StartOf(3) = T + 700
                /\ DurationOf(1) = 300 /\ DurationOf(2) = 300 )
         => SubSeq(group_index, 1, 3) = <<0, 0, 1>>

\* three recordings of duration 300 at 0, 300 and 700 have been grouped
C11_Witness ==
    /\ cat_pc = "finished"
    /\ Len(t3w_file_list) = 3
    /\ \A k \in 1..3 : DurationOf(k) = 300 /\ t3w_file_list[k].sub_dir_index = 0
    /\ <<StartOf(1), StartOf(2), StartOf(3)>> = <<0, 300, 700>>
    /\ group_index = <<0, 0, 1>>

\* how often logger.warning was called for row k
WarningsFor(k) == Cardinality({n \in 1..Len(warnings) : warnings[n] = k})

\* C12: during the grouping pass, for every recording after the first the
\* 'missing files' warning is emitted exactly once when its group index
\* differs from that of the recording before it and its sequence number is
\* not 0, and not at all otherwise; no warning is emitted for anything else.
C12_WarningRule ==
    InPass =>
      /\ \A k \in 2..match_i :
           WarningsFor(k) =
             IF /\ group_index[k] # group_index[k - 1]
                /\ t3w_file_list[k].data.sequence_number # 0
             THEN 1 ELSE 0
      /\ \A n \in 1..Len(warnings) : warnings[n] \in 2..match_i

\* a pass that warned for the boundary row 3 and not for row 2, which has a
\* nonzero sequence number inside a group
C12_Witness ==
    /\ cat_pc = "finished"
    /\ group_index = <<0, 0, 1>>
    /\ t3w_file_list[2].data.sequence_number = 1
    /\ t3w_file_list[3].data.sequence_number = 1
    /\ warnings = <<3>>

\* the logs of the subdirectory of row k whose window meets [start, end] of
\* the row, by their place in log_file_list
Candidates(k) ==
    {j \in 1..Len(log_file_list) :
       /\ log_file_list[j].sub_dir_index = t3w_file_list[k].sub_dir_index
       /\ log_file_list[j].data.start_time <= StartOf(k) + DurationOf(k)
       /\ StartOf(k) <= log_file_list[j].data.end_time}

\* C13: a recording's matched-log index is the lowest index of a log of its
\* subdirectory with log.start <= recording.end and recording.start <=
\* log.end, or -1 when there is none; the bounds are inclusive: a recording
\* that starts exactly at log.end is matched, one that starts one unit after
\* log.end is not matched to that log.
C13_LowestOverlappingLog ==
    InPass =>
      \A k \in 1..match_i :
        /\ Candidates(k) = {} => match_log_index[k] = -1
        /\ Candidates(k) # {} =>
             /\ match_log_index[k] + 1 \in Candidates(k)
             /\ \A o \in Candidates(k) : match_log_index[k] + 1 <= o
        /\ \A j \in 1..Len(log_file_list) :
             StartOf(k) = log_file_list[j].data.end_time + 1
               => match_log_index[k] # j - 1

\* a pass in which a recording that starts at the end of a log is matched to
\* it, another starts one unit after the end of a log of its subdirectory,
\* and a third meets two logs
C13_Witness ==
    /\ cat_pc = "finished"
    /\ \E k \in 1..Len(t3w_file_list) :
         /\ match_log_index[k] # -1
         /\ StartOf(k) = log_file_list[match_log_index[k] + 1].data.end_time
    /\ \E k \in 1..Len(t3w_file_list), j \in 1..Len(log_file_list) :
         /\ log_file_list[j].sub_dir_index = t3w_file_list[k].sub_dir_index
         /\ StartOf(k) = log_file_list[j].data.end_time + 1
    /\ \E k \in 1..Len(t3w_file_list) : Cardinality(Candidates(k)) >= 2

\* the log row k is matched to
MatchedLog(k) == log_file_list[match_log_index[k] + 1]

\* C14 as stated: whenever a recording is matched to a log, the window of
\* that log contains the start of the recording:
\* log.start <= recording.start <= log.end.
C14_WindowContainsStart ==
    InPass =>
      \A k \in 1..match_i :
        match_log_index[k] # -1 =>
          /\ MatchedLog(k).data.start_time <= StartOf(k)
          /\ StartOf(k) <= MatchedLog(k).data.end_time

\* C14, amended: whenever a recording is matched to a log, the window of that
\* log meets the interval of the recording: log.start <= recording.end and
\* recording.start <= log.end.
C14_WindowMeetsRecording ==
    InPass =>
      \A k \in 1..match_i :
        match_log_index[k] # -1 =>
          /\ MatchedLog(k).data.start_time <= StartOf(k) + DurationOf(k)
          /\ StartOf(k) <= MatchedLog(k).data.end_time

\* a recording matched to a log that starts after the recording starts
C14_Witness ==
    /\ cat_pc = "finished"
    /\ \E k \in 1..Len(t3w_file_list) :
         /\ match_log_index[k] # -1
         /\ StartOf(k) < MatchedLog(k).data.start_time

\* the location columns of row k as _create_file_list left them
CreatedLocation(k) ==
    IF persisted.exists THEN persisted.location[k] ELSE AllColumns(NoneValue)

C20_PersistedIndicesReused ==
    (cat_pc = "finished" /\ persisted.exists) =>
      /\ group_index = persisted.group_index
      /\ match_log_index = persisted.match_log_index

(***************************************************************************)
(* Properties of LogHandler, checked under SpecLog.                        *)
(***************************************************************************)
\* the retained $GPGGA lines of the file, in file order
Retained == DropNA(temp_line_GPGGA)

\* the rows with a fix whose HDOP no row with a fix undercuts
Selected ==
    {n \in 1..Len(raw_GPGGA) :
       /\ raw_GPGGA[n].quality >= 1
       /\ \A o \in 1..Len(raw_GPGGA) :
            raw_GPGGA[o].quality >= 1 => raw_GPGGA[n].HDOP <= raw_GPGGA[o].HDOP}

RECURSIVE SumOver(_, _)
SumOver(S, col) ==
    IF S = {} THEN 0
    ELSE LET n == CHOOSE x \in S : TRUE
         IN raw_GPGGA[n][col] + SumOver(S \ {n}, col)

FixColumns ==
    {"latitude", "longitude", "altitude", "geoid_height", "num_satellites", "HDOP"}

C17_NoValidFixFails ==
    ( /\ log_pc \in {"done", "error"}
      /\ \A n \in 1..Len(Retained) : Retained[n].quality < 1 )
    => (log_pc = "error" /\ stats = NoStats)

\* C18: for every retained GPGGA sentence, the converted latitude is negative
\* exactly when the N/S flag of that sentence is S and the converted
\* longitude is negative exactly when its E/W flag is W, whatever the flags
\* of the other sentences of the log.
C18_OwnHemisphere ==
    log_pc \in {"process", "done"} =>
      \A n \in 1..Len(raw_GPGGA) :
        /\ (raw_GPGGA[n].latitude < 0) <=> (Retained[n].NS = "S")
        /\ (raw_GPGGA[n].longitude < 0) <=> (Retained[n].EW = "W")

\* C19: the validity window of a log is [timestamp of the first retained
\* GPGGA sentence, timestamp of the last retained GPGGA sentence] in file
\* order, whatever the quality and HDOP of those sentences: the window is a
\* function of the date and the times of day only.
C19_WindowIsFirstToLast ==
    log_pc = "done" =>
      LET d == DropNA(temp_line_GPZDA)[1].day
      IN /\ stats.start_time = d * 86400 + Retained[1].UTC_time
         /\ stats.end_time = d * 86400 + Retained[Len(Retained)].UTC_time

\* a log whose first and last retained sentences are no terms of the fix:
\* one has no fix, the other a higher HDOP
C19_Witness ==
    /\ log_pc = "done"
    /\ Len(raw_GPGGA) >= 3
    /\ Selected # {}
    /\ 1 \notin Selected
    /\ Len(raw_GPGGA) \notin Selected
    /\ raw_GPGGA[1].quality = 0
    /\ stats.start_time = raw_GPGGA[1].UTC_time
    /\ stats.end_time = raw_GPGGA[Len(raw_GPGGA)].UTC_time

(***************************************************************************)
(* Further properties of DataFormatter, checked under SpecCatalog.         *)
(***************************************************************************)
\* C24 as stated: continuity is compared only between consecutive recordings
\* of one subdirectory, so two recordings of different subdirectories never
\* have the same group index, even when their times are exactly contiguous.
C24_GroupsWithinSubdirectory ==
    InPass =>
      \A k, o \in 1..match_i :
        t3w_file_list[k].sub_dir_index # t3w_file_list[o].sub_dir_index
          => group_index[k] # group_index[o]

\* C26: at every step of the grouping pass the group indices assigned so far
\* are monotone along the catalog: the first is 0 and each later one equals
\* the one before it or exceeds it by exactly one.
C26_MonotoneGroups ==
    InPass =>
      /\ match_i >= 1 => group_index[1] = 0
      /\ \A k \in 2..match_i :
           \/ group_index[k] = group_index[k - 1]
           \/ group_index[k] = group_index[k - 1] + 1

\* a pass in the middle of a catalog, with a group continued and a group
\* opened among the rows done
C26_Witness ==
    /\ cat_pc = "loop"
    /\ match_i = 3
    /\ match_i <= Len(t3w_file_list)
    /\ SubSeq(group_index, 1, 3) \in { <<0, 0, 1>>, <<0, 1, 1>> }

\* C27: after the matching pass the match_log_index of every recording is -1
\* or the index of a log of the catalog whose sub_dir_index equals that of
\* the recording, also when only a log of another subdirectory overlaps it.
C27_MatchWithinSubdirectory ==
    (cat_pc = "finished" \/ (cat_pc = "loop" /\ match_i = Len(t3w_file_list))) =>
      \A k \in 1..Len(t3w_file_list) :
        \/ match_log_index[k] = -1
        \/ /\ match_log_index[k] \in 0..(Len(log_file_list) - 1)
           /\ MatchedLog(k).sub_dir_index = t3w_file_list[k].sub_dir_index

\* a recording overlapped only by a log of another subdirectory is left
\* unmatched, next to a recording matched to a log of its own subdirectory
C27_Witness ==
    /\ cat_pc = "finished"
    /\ \E k \in 1..Len(t3w_file_list) :
         /\ match_log_index[k] = -1
         /\ \E j \in 1..Len(log_file_list) :
              /\ log_file_list[j].sub_dir_index # t3w_file_list[k].sub_dir_index
              /\ log_file_list[j].data.start_time <= StartOf(k) + DurationOf(k)
              /\ StartOf(k) <= log_file_list[j].data.end_time
    /\ \E k \in 1..Len(t3w_file_list) : match_log_index[k] # -1

C29_WindowWellFormed ==
    log_pc = "done" => stats.start_time <= stats.end_time

(***************************************************************************)
(* Further properties of Win32Handler.read_bin_data, checked under Spec.   *)
(***************************************************************************)
\* C25: within one channel block the first sample is the signed 32-bit
\* initial value of the block and every later sample is the sample before it
\* plus the delta decoded for it; the running sum is the last sample at every
\* step, so it is never reset or seeded again inside a block.
C25_RunningSum ==
    temp_data_block # NoBlock =>
      /\ Len(temp_data_block.data) = Len(blk_deltas) + 1
      /\ \E iv \in InitSamples : temp_data_block.data[1] = TwosComplement(iv)
      /\ \A k \in 1..Len(blk_deltas) :
           temp_data_block.data[k + 1] = temp_data_block.data[k] + blk_deltas[k]
      /\ temp_sample_value = temp_data_block.data[Len(temp_data_block.data)]

\* a block with three samples after two deltas that are not 0
C25_Witness ==
    /\ pc = "delta"
    /\ Len(blk_deltas) >= 2
    /\ blk_deltas[1] # 0
    /\ blk_deltas[2] # 0
    /\ temp_data_block.data[3] = temp_data_block.data[1] + blk_deltas[1] + blk_deltas[2]

\* C30: for a payload of two or more frames, the start time of every decoded
\* channel stream is the timestamp of the first frame, the instant the
\* returned header gives as its start, not the timestamp of a later frame.
C30_StreamStartsAtFirstFrame ==
    (pc = "done" /\ Len(temp_data) >= 2) =>
      \A i \in 1..Len(stream) :
        /\ stream[i].starttime = temp_data[1].start_datetime
        /\ stream[i].starttime = header.start_datatime

\* C21: when a persisted catalog is reloaded, every stored path that does not
\* exist is replaced by root directory + relative path, and if a recording or
\* a log is still absent at the new path the reload itself fails with a
\* missing-file error and yields no catalog.
C21_ReloadFailsOnMissing ==
    /\ (persisted.exists /\ cat_pc \in {"load", "match", "loop", "finished"}) =>
         /\ \A k \in 1..Len(t3w_file_list) :
              t3w_file_list[k].file_path =
                (IF T3WExists(k, "stored") THEN "stored" ELSE "rel")
         /\ \A j \in 1..Len(log_file_list) :
              log_file_list[j].file_path =
                (IF LogExists(j, "stored") THEN "stored" ELSE "rel")
    /\ (persisted.exists /\ fault.kind \in {"gone", "log_gone"}
          /\ cat_pc # "create") =>
         /\ cat_pc = "error"
         /\ cat_err = "FileNotFoundError"
         /\ t3w_file_list = <<>>
         /\ log_file_list = <<>>

\* C22: if decoding one recording of a batch fails, the catalog build still
\* completes, and every other recording of the batch is decoded, grouped,
\* matched and persisted.
C22_BadRecordingIsolated ==
    fault.kind = "decode" =>
      /\ cat_pc # "error"
      /\ cat_pc = "finished" =>
           /\ Len(exported) = Len(t3w_file_list)
           /\ \A k \in 1..Len(t3w_file_list) :
                k # fault.row =>
                  /\ t3w_file_list[k].data # NoData
                  /\ group_index[k] >= 0
                  /\ match_log_index[k] >= -1

\* C23: a continuity warning never stops the grouping pass: once the pass has
\* ended, whether it walked every row or stopped, every recording of the
\* catalog has one group index >= 0 and none keeps the initial -1.
C23_EveryRecordingGrouped ==
    (cat_pc = "finished" \/ (cat_pc = "error" /\ cat_err = "ValueError")) =>
      /\ Len(group_index) = Len(t3w_file_list)
      /\ \A k \in 1..Len(t3w_file_list) : group_index[k] >= 0

====
